---- MODULE Spec2Model ----
(***************************************************************************)
(* Model of the BER tag codec of src/src/tag.rs (Tag::read, Tag::write and *)
(* their helpers) and of the position-tracked reader of src/src/util.rs.   *)
(*                                                                         *)
(* Representation of the machine integers:                                 *)
(*   - a byte (u8) is a number in 0..255; the masks and shifts the code    *)
(*     applies to one byte are written with \div and %;                    *)
(*   - a non-negative i64 (a tag number) is the tuple of its nine 7-bit    *)
(*     groups, least significant first (9 * 7 = 63 value bits);            *)
(*   - a u64 (a length) is the tuple of its eight bytes, least significant *)
(*     first.                                                              *)
(* so that shifts by 7 and by 8 bits, the masks 0x7F and 0xFF and the      *)
(* comparisons with 0 and 0x1F are exact over the whole 64-bit range.      *)
(***************************************************************************)
EXTENDS Integers, Sequences, FiniteSets, TLC

VARIABLES b, pc, res, tag, out, res2, len, lenOut

vars == <<b, pc, res, tag, out, res2, len, lenOut>>

----------------------------------------------------------------------------
(* Machine integers *)

I64Groups == 9

U64Bytes == 8

\* x as i64, for 0 <= x < 128
I64(x) == [k \in 1..I64Groups |-> IF k = 1 THEN x ELSE 0]

\* num > 0 / num != 0 on a non-negative i64
I64IsZero(num) == \A k \in 1..I64Groups : num[k] = 0

\* num >>= 7
I64Shr7(num) == [k \in 1..I64Groups |-> IF k < I64Groups THEN num[k + 1] ELSE 0]

\* num >= 0x1F
I64Ge1F(num) == num[1] >= 31 \/ \E k \in 2..I64Groups : num[k] # 0

\* n as u64, for a collection size n (grade-school conversion to bytes)
RECURSIVE NatBytes(_, _)
NatBytes(n, k) == IF k = 0 THEN <<>> ELSE <<n % 256>> \o NatBytes(n \div 256, k - 1)

U64(n) == NatBytes(n, U64Bytes)

U64IsZero(val) == \A k \in 1..U64Bytes : val[k] = 0

\* val >>= 8
U64Shr8(val) == [k \in 1..U64Bytes |-> IF k < U64Bytes THEN val[k + 1] ELSE 0]

\* l < 0x80, the short form of the encoding rules
U64Lt80(l) == l[1] < 128 /\ \A k \in 2..U64Bytes : l[k] = 0

\* l < 0x1F
U64Lt1F(l) == l[1] < 31 /\ \A k \in 2..U64Bytes : l[k] = 0

\* l as usize (64-bit target: the value itself)
RECURSIVE AsUsizeFrom(_, _)
AsUsizeFrom(l, k) == IF k > U64Bytes THEN 0 ELSE l[k] + 256 * AsUsizeFrom(l, k + 1)

AsUsize(l) == AsUsizeFrom(l, 1)

----------------------------------------------------------------------------
(* Type, Class, Flavor, Number, Length, Payload, Tag *)

\* the discriminants of enum Type
Type == (0..13) \cup (16..30)

ClassName(c) == CASE c = 0 -> "Universal"
                  [] c = 1 -> "Application"
                  [] c = 2 -> "ContextSpecific"
                  [] c = 3 -> "Private"

ClassCode(name) == CASE name = "Universal" -> 0
                     [] name = "Application" -> 1
                     [] name = "ContextSpecific" -> 2
                     [] name = "Private" -> 3

\* Number::Universal(t) carries the discriminant t as value I64(t);
\* the other variants carry their i64
Number(variant, value) == [variant |-> variant, value |-> value]

Eoc == Number("Universal", I64(0))

Indefinite == [indefinite |-> TRUE, l |-> U64(0)]

LengthSome(l) == [indefinite |-> FALSE, l |-> l]

Primitive(v) == [flavor |-> 0, bytes |-> v, children |-> <<>>]

Constructed(v) == [flavor |-> 1, bytes |-> <<>>, children |-> v]

\* offset: None
None == -1

Tag(number, offset, payload) == [number |-> number, offset |-> offset, payload |-> payload]

NoTag == Tag(Eoc, 0, Primitive(<<>>))

----------------------------------------------------------------------------
(* util.rs: TrackedReader over a std::io::Cursor (the source of the tests) *)

\* TrackedReader::new: pos is the cursor of the wrapped source
TrackedReader(src) == [src |-> src, pos |-> 0, read_bytes |-> 0]

\* tell() counting from one
TellFromOne(r) == r.read_bytes + 1

Tell(r) == r.read_bytes

\* TrackedReader::read into a buffer of n bytes: the source hands over the
\* bytes it has, at most n; read_bytes grows by the count returned
Read(r, n) ==
  LET count == IF Len(r.src) - r.pos < n THEN Len(r.src) - r.pos ELSE n
  IN  [count |-> count,
       data  |-> SubSeq(r.src, r.pos + 1, r.pos + count),
       r     |-> [r EXCEPT !.pos = @ + count, !.read_bytes = @ + count]]

\* results of the fallible steps
Ok(val, r) == [st |-> "Ok", val |-> val, kind |-> "", r |-> r]

Err(kind, r) == [st |-> "Err", val |-> 0, kind |-> kind, r |-> r]

Panic(r) == [st |-> "Panic", val |-> 0, kind |-> "", r |-> r]

\* the same outcome, carrying the reader on
Fail(x) == [st |-> x.st, val |-> 0, kind |-> x.kind, r |-> x.r]

\* byteorder's read_u8: one byte, or an error when the source has none left
ReadU8(r) ==
  LET got == Read(r, 1)
  IN  IF got.count = 1 THEN Ok(got.data[1], got.r) ELSE Err("Byteorder", got.r)

----------------------------------------------------------------------------
(* tag.rs: decoding *)

\* the while loop of read_extended_number, entered with count and ret
RECURSIVE ReadExtendedLoop(_, _, _)
ReadExtendedLoop(r, count, ret) ==
  IF count < 8
  THEN LET got == ReadU8(r)
       IN  IF got.st # "Ok" THEN Fail(got)
           ELSE LET bits == got.val % 128
                    ret2 == [ret EXCEPT ![count + 1] = bits]
                IN  IF got.val < 128 THEN Ok(ret2, got.r)
                    ELSE ReadExtendedLoop(got.r, count + 1, ret2)
  ELSE Ok(ret, r)

read_extended_number(r) == ReadExtendedLoop(r, 0, I64(0))

maybe_read_extended_number(n, r) ==
  IF n = 31 THEN read_extended_number(r) ELSE Ok(I64(n), r)

\* val of the result: [flavor, number]
read_identifiers(r) ==
  LET got == ReadU8(r)
  IN  IF got.st # "Ok" THEN Fail(got)
      ELSE LET class  == got.val \div 64
               flavor == (got.val \div 32) % 2
               number == got.val % 32
           IN  IF class = 0
               THEN IF number = 31 THEN Err("InvalidTypeAndFlavor", got.r)
                    ELSE IF number \notin Type THEN Panic(got.r)
                    ELSE Ok([flavor |-> flavor,
                             number |-> Number("Universal", I64(number))], got.r)
               ELSE LET n == maybe_read_extended_number(number, got.r)
                    IN  IF n.st # "Ok" THEN Fail(n)
                        ELSE Ok([flavor |-> flavor,
                                 number |-> Number(ClassName(class), n.val)], n.r)

\* the for loop of read_length, entered with i and ret
RECURSIVE ReadLengthLoop(_, _, _, _)
ReadLengthLoop(r, count, i, ret) ==
  IF i < count
  THEN LET got == ReadU8(r)
       IN  IF got.st # "Ok" THEN Fail(got)
           ELSE ReadLengthLoop(got.r, count, i + 1,
                               [ret EXCEPT ![count - i] = got.val])
  ELSE Ok(LengthSome(ret), r)

read_length(r) ==
  LET got == ReadU8(r)
  IN  IF got.st # "Ok" THEN Fail(got)
      ELSE IF got.val = 128 THEN Ok(Indefinite, got.r)
      ELSE IF got.val >= 128
      THEN LET count == got.val % 128
           IN  IF count > 8 THEN Err("NumberOverflow", got.r)
               ELSE ReadLengthLoop(got.r, count, 0, U64(0))
      ELSE Ok(LengthSome(U64(got.val)), got.r)

\* vec![0; l]: the buffer before the read
Zeros(n) == [k \in 1..n |-> 0]

\* the primitive arm of read_payload: the buffer keeps its zeros past the
\* bytes the source delivered
ReadPrimitive(length, r) ==
  LET n   == AsUsize(length.l)
      got == Read(r, n)
  IN  Ok(Primitive(got.data \o Zeros(n - got.count)), got.r)

RECURSIVE inner_read(_), ReadChildren(_, _, _, _)

\* the do-while loop of read_payload's constructed arm
ReadChildren(length, r, start, children) ==
  LET child == inner_read(r)
  IN  IF child.st # "Ok" THEN Fail(child)
      ELSE IF child.val.number = Eoc /\ length.indefinite
      THEN Ok(Constructed(children), child.r)
      ELSE IF ~length.indefinite /\ Tell(child.r) - start >= AsUsize(length.l)
      THEN Ok(Constructed(Append(children, child.val)), child.r)
      ELSE ReadChildren(length, child.r, start, Append(children, child.val))

read_payload(length, flavor, r) ==
  IF flavor = 0 THEN ReadPrimitive(length, r)
  ELSE ReadChildren(length, r, Tell(r), <<>>)

inner_read(r) ==
  LET offset == Tell(r)
      id     == read_identifiers(r)
  IN  IF id.st # "Ok" THEN Fail(id)
      ELSE LET length == read_length(id.r)
           IN  IF length.st # "Ok" THEN Fail(length)
               ELSE IF length.val.indefinite /\ id.val.flavor = 0
               THEN Err("InvalidLength", length.r)
               ELSE LET payload == read_payload(length.val, id.val.flavor, length.r)
                    IN  IF payload.st # "Ok" THEN Fail(payload)
                        ELSE Ok(Tag(id.val.number, offset, payload.val), payload.r)

\* Tag::read
TagRead(src) == inner_read(TrackedReader(src))

----------------------------------------------------------------------------
(* tag.rs: encoding; each operator yields the bytes appended to the sink *)

\* the while loop of write_extended_number
RECURSIVE write_extended_number(_)
write_extended_number(num) ==
  IF I64IsZero(num) THEN <<>>
  ELSE LET rest == I64Shr7(num)
           byte == num[1] + (IF I64IsZero(rest) THEN 0 ELSE 128)
       IN  <<byte>> \o write_extended_number(rest)

maybe_write_extended_number(num) ==
  IF I64Ge1F(num) THEN write_extended_number(num) ELSE <<>>

\* the low five bits of the identifier octet
NumberField(number) ==
  IF number.variant = "Universal" THEN number.value[1]
  ELSE IF I64Ge1F(number.value) THEN 31 ELSE number.value[1]

write_identifiers(class, flavor, number) ==
  <<class * 64 + flavor * 32 + NumberField(number)>>
    \o (IF number.variant = "Universal" THEN <<>>
        ELSE maybe_write_extended_number(number.value))

\* the do-while loop that counts the bytes of l
RECURSIVE LengthCount(_, _)
LengthCount(val, count) ==
  LET count2 == count + 1
      val2   == U64Shr8(val)
  IN  IF U64IsZero(val2) THEN count2 ELSE LengthCount(val2, count2)

\* for i in (0..count).rev(): byte i of l, the largest first
RECURSIVE LengthBytes(_, _)
LengthBytes(l, i) == IF i = 0 THEN <<>> ELSE <<l[i]>> \o LengthBytes(l, i - 1)

write_length(length) ==
  IF length.indefinite THEN <<128>>
  ELSE IF U64Lt1F(length.l) THEN <<length.l[1]>>
  ELSE LET count == LengthCount(length.l, 0)
       IN  <<count + 128>> \o LengthBytes(length.l, count)

\* a constructed payload without children advertised with the length 0
AdvertisedEmptyDefinite(payload) ==
  IF payload.flavor = 0
  THEN [flavor |-> 0, length |-> LengthSome(U64(Len(payload.bytes)))]
  ELSE [flavor |-> 1,
        length |-> IF payload.children = <<>> THEN LengthSome(U64(0)) ELSE Indefinite]

\* Tag::write, lines 352-355: the flavor and the length to advertise
Advertised(payload) ==
  IF payload.flavor = 0
  THEN [flavor |-> 0, length |-> LengthSome(U64(Len(payload.bytes)))]
  ELSE [flavor |-> 1, length |-> Indefinite]

\* the end-of-contents bytes left out
NoTerminator(length) == <<>>

\* Tag::write, lines 363-366
Terminator(length) == IF length.indefinite THEN <<0, 0>> ELSE <<>>

RECURSIVE TagWrite(_), WriteChildren(_, _)

\* the for loop of write_payload's constructed arm, from child i on
WriteChildren(v, i) ==
  IF i > Len(v) THEN <<>> ELSE TagWrite(v[i]) \o WriteChildren(v, i + 1)

write_payload(payload) ==
  IF payload.flavor = 0 THEN payload.bytes ELSE WriteChildren(payload.children, 1)

\* Tag::write
TagWrite(t) ==
  LET class == ClassCode(t.number.variant)
      adv   == Advertised(t.payload)
  IN  write_identifiers(class, adv.flavor, t.number)
        \o write_length(adv.length)
        \o write_payload(t.payload)
        \o Terminator(adv.length)

----------------------------------------------------------------------------
(* The inputs *)

\* longest byte source made of SourceBytes
MaxLen == 6

\* the bytes a source is made of: identifier octets 00 (Eoc), 01 (boolean),
\* 30 (sequence, constructed), 5F (application, primitive, extended
\* number); lengths 00, 01, 30, 5F, 80 (indefinite), 81 (long form, one
\* byte); groups of an extended number 00, 01, 30, 5F (last group) and 80,
\* 81 (continued)
SourceBytes == {0, 1, 48, 95, 128, 129}

Sources == UNION {[1..n -> SourceBytes] : n \in 0..MaxLen}

\* longest tail after the first octet of an identifier source
MaxTail == 2

\* every universal identifier octet (both flavors), then a few bytes
IdSources ==
  {<<octet>> \o t : octet \in 0..63,
                    t \in UNION {[1..n -> {0, 1, 128}] : n \in 0..MaxTail}}

\* most continuation groups after the identifier octet of an overflow source
MaxGroups == 8

\* an identifier octet (04 inline, 5F extended), continued groups, then a
\* tail that may hold a length byte announcing 9 or 127 bytes
OverflowSources ==
  {<<octet>> \o g \o t :
     octet \in {4, 95},
     g \in UNION {[1..n -> {128, 255}] : n \in 0..MaxGroups},
     t \in UNION {[1..n -> {0, 137, 255}] : n \in 0..2}}

\* longest primitive payload of a payload source
MaxPayload == 32

\* the ways a source may write the length n of a payload
LengthForms(n) == {<<n>>, <<129, n>>, <<130, 0, n>>}

\* an octet string of n bytes under the length field f, alone and in an
\* indefinite sequence
Framed(n, f) ==
  {<<4>> \o f \o [k \in 1..n |-> 1],
   <<48, 128, 4>> \o f \o [k \in 1..n |-> 1] \o <<0, 0>>}

PayloadSources ==
  UNION {UNION {Framed(n, f) : f \in LengthForms(n)} : n \in 29..MaxPayload}

\* longest source put in an envelope
MaxInner == 5

\* a short source as the content of an indefinite sequence, and of a
\* constructed application tag with an extended number and a long-form length
WrappedSources ==
  UNION {{<<48, 128>> \o s \o <<0, 0>>, <<127, 129, 1, 129, Len(s)>> \o s} :
         s \in UNION {[1..n -> SourceBytes] : n \in 0..MaxInner}}

NoResult == Err("", TrackedReader(<<>>))

Init ==
  /\ b \in Sources \cup IdSources \cup OverflowSources \cup PayloadSources
            \cup WrappedSources
  /\ pc = "source"
  /\ res = NoResult
  /\ tag = NoTag
  /\ out = <<>>
  /\ res2 = NoResult
  /\ len = Indefinite
  /\ lenOut = <<>>

\* Tag::read(&mut Cursor::new(b))
DoRead ==
  /\ pc = "source"
  /\ res' = TagRead(b)
  /\ tag' = IF res'.st = "Ok" THEN res'.val ELSE NoTag
  /\ pc' = IF res'.st = "Ok" THEN "tag" ELSE "failed"
  /\ UNCHANGED <<b, out, res2, len, lenOut>>

\* tag.write(&mut buf) on an empty Vec
DoWrite ==
  /\ pc = "tag"
  /\ out' = TagWrite(tag)
  /\ pc' = "written"
  /\ UNCHANGED <<b, res, tag, res2, len, lenOut>>

\* Tag::read(&mut Cursor::new(buf))
DoReadBack ==
  /\ pc = "written"
  /\ res2' = TagRead(out)
  /\ pc' = "reread"
  /\ UNCHANGED <<b, res, tag, out, len, lenOut>>

Next == DoRead \/ DoWrite \/ DoReadBack

Spec == Init /\ [][Next]_vars

----------------------------------------------------------------------------
(* Observers of a decode: what the source holds at the nodes of the tree *)

\* the nodes of a tree, parents before children
RECURSIVE Nodes(_), NodesFrom(_, _)
Nodes(t) == <<t>> \o NodesFrom(t.payload.children, 1)

NodesFrom(v, i) == IF i > Len(v) THEN <<>> ELSE Nodes(v[i]) \o NodesFrom(v, i + 1)

NodeSet(t) == {Nodes(t)[i] : i \in 1..Len(Nodes(t))}

\* a reader that has consumed the first p bytes of src
At(src, p) == [src |-> src, pos |-> p, read_bytes |-> p]

\* the header found in src at position p: the flavor and number, the length,
\* where the identifier ends and where the payload starts
Header(src, p) ==
  LET id == read_identifiers(At(src, p))
      ln == read_length(id.r)
  IN  [flavor |-> id.val.flavor, number |-> id.val.number, length |-> ln.val,
       idEnd |-> id.r.pos, start |-> ln.r.pos]

\* the declared byte count of the node at p
Declared(src, p) == AsUsize(Header(src, p).length.l)

\* where the children of a constructed node end, and where the node ends
RECURSIVE NodeEnd(_, _)
ChildrenEnd(src, node) ==
  LET v == node.payload.children
  IN  IF v = <<>> THEN Header(src, node.offset).start ELSE NodeEnd(src, v[Len(v)])

NodeEnd(src, node) ==
  LET h == Header(src, node.offset)
  IN  IF node.payload.flavor = 0
      THEN IF h.start + AsUsize(h.length.l) > Len(src) THEN Len(src)
           ELSE h.start + AsUsize(h.length.l)
      ELSE IF h.length.indefinite
      THEN inner_read(At(src, ChildrenEnd(src, node))).r.pos
      ELSE ChildrenEnd(src, node)

\* the tree with every offset moved by d
RECURSIVE Shift(_, _)
Shift(t, d) ==
  [number  |-> t.number,
   offset  |-> t.offset + d,
   payload |-> [flavor   |-> t.payload.flavor,
                bytes    |-> t.payload.bytes,
                children |-> [i \in 1..Len(t.payload.children) |->
                                Shift(t.payload.children[i], d)]]]

\* the tree without its offsets
RECURSIVE Shape(_)
Shape(t) ==
  [number  |-> t.number,
   payload |-> [flavor   |-> t.payload.flavor,
                bytes    |-> t.payload.bytes,
                children |-> [i \in 1..Len(t.payload.children) |->
                                Shape(t.payload.children[i])]]]

Decoded == pc \in {"tag", "written", "reread"}

Written == pc \in {"written", "reread"}

----------------------------------------------------------------------------
(* C7 *)

\* C7: after a successful Tag::read the root has offset 0, the first child of
\* a constructed node starts where the node's length field ends, every other
\* child starts where the child before it ends, and decoding the source
\* afresh from a node's offset yields that node again: every offset is the
\* number of source bytes before the node's identifier octet.
C7_OffsetsRecorded ==
  Decoded =>
    /\ tag.offset = 0
    /\ \A node \in NodeSet(tag) :
         /\ LET again == TagRead(SubSeq(b, node.offset + 1, Len(b)))
            IN  again.st = "Ok" /\ Shift(again.val, node.offset) = node
         /\ \A i \in 1..Len(node.payload.children) :
              node.payload.children[i].offset =
                IF i = 1 THEN Header(b, node.offset).start
                ELSE NodeEnd(b, node.payload.children[i - 1])

\* a grandchild decoded behind an extended number and a long-form length
C7_Witness ==
  /\ Decoded
  /\ Header(b, 0).start > 2
  /\ \E node \in NodeSet(tag) : node.payload.children # <<>> /\ node.offset > 0

----------------------------------------------------------------------------
(* C1, C5, C10: decode, encode, decode again *)

\* the source is one whole tag: the decode consumed all of it and every
\* primitive payload had its declared bytes
OneWholeTag ==
  /\ res.r.pos = Len(b)
  /\ \A node \in NodeSet(tag) :
       node.payload.flavor = 0 =>
         Header(b, node.offset).start + Declared(b, node.offset) <= Len(b)

\* every constructed tag of the source has length byte 80 and is closed by 00 00
IndefiniteFraming ==
  \A node \in NodeSet(tag) :
    node.payload.flavor = 1 =>
      /\ Header(b, node.offset).length.indefinite
      /\ NodeEnd(b, node) = ChildrenEnd(b, node) + 2
      /\ SubSeq(b, ChildrenEnd(b, node) + 1, ChildrenEnd(b, node) + 2) = <<0, 0>>

\* some constructed tag of the source has a definite length
DefiniteFraming ==
  \E node \in NodeSet(tag) :
    node.payload.flavor = 1 /\ ~Header(b, node.offset).length.indefinite

\* the identifier at p, as read_identifiers takes it, has its number in the
\* five-bit field when that is at most 30, and otherwise in at most eight
\* groups, the last of them not zero and with its high bit clear
ShortestIdentifier(src, p) ==
  LET h == Header(src, p)
  IN  \/ h.idEnd = p + 1
      \/ /\ src[h.idEnd] \in 1..127
         /\ h.idEnd > p + 2 \/ src[h.idEnd] >= 31

\* the length field of the primitive tag at p is one byte below 1F, or the
\* long form of a length of at least 1F with a non-zero first byte
ShortestLength(src, p) ==
  LET h == Header(src, p)
  IN  \/ h.start = h.idEnd + 1 /\ src[h.start] < 31
      \/ /\ h.start > h.idEnd + 1
         /\ src[h.idEnd + 2] # 0
         /\ h.start > h.idEnd + 2 \/ src[h.start] >= 31

\* every identifier and every primitive length of the source is written the
\* way Tag::write writes it
ShortestForms ==
  \A node \in NodeSet(tag) :
    /\ ShortestIdentifier(b, node.offset)
    /\ node.payload.flavor = 0 => ShortestLength(b, node.offset)

\* C1 as stated: a source that is one whole tag, with every constructed tag in
\* indefinite-length framing, is reproduced by Tag::write of its decode.
C1_RoundTripIndefinite ==
  (Written /\ OneWholeTag /\ IndefiniteFraming) => out = b

\* C1 as amended: a source that is one whole tag, with every constructed tag
\* in indefinite-length framing, every tag number at most 30 in the five-bit
\* field and every other in at most eight extended groups ending in a
\* non-zero group with its high bit clear, every primitive length below 1F in
\* one byte and every other in long form with a non-zero first byte, is
\* reproduced by Tag::write of its decode.
C1_RoundTripShortestForms ==
  (Written /\ OneWholeTag /\ IndefiniteFraming /\ ShortestForms) => out = b

\* a sequence holding a primitive child with an extended number or a
\* long-form length, in those forms
C1_Witness ==
  /\ Written /\ OneWholeTag /\ IndefiniteFraming /\ ShortestForms
  /\ tag.payload.children # <<>>
  /\ \E node \in NodeSet(tag) :
       node.payload.flavor = 0 /\ Header(b, node.offset).start > node.offset + 2

\* the bytes of the children of a node, written one after the other
RECURSIVE ChildrenBytes(_, _)
ChildrenBytes(v, i) ==
  IF i > Len(v) THEN <<>> ELSE TagWrite(v[i]) \o ChildrenBytes(v, i + 1)

\* C5: Tag::write emits every constructed node of the tree as its identifier,
\* the length byte 80, its children in order and 00 00; and when a
\* constructed tag of the source had a definite length, the bytes written
\* differ from the source.
C5_AlwaysIndefinite ==
  Written =>
    /\ \A node \in NodeSet(tag) :
         node.payload.flavor = 1 =>
           LET w == TagWrite(node)
               h == Header(w, 0)
           IN  /\ h.number = node.number /\ h.flavor = 1
               /\ h.start = h.idEnd + 1
               /\ w[h.start] = 128
               /\ Len(w) >= h.start + 2
               /\ SubSeq(w, Len(w) - 1, Len(w)) = <<0, 0>>
               /\ SubSeq(w, h.start + 1, Len(w) - 2)
                    = ChildrenBytes(node.payload.children, 1)
    /\ DefiniteFraming => out # b

\* a definite-length constructed tag inside a definite-length constructed tag
C5_Witness ==
  /\ Written
  /\ ~Header(b, 0).length.indefinite
  /\ \E node \in NodeSet(tag) :
       /\ node.offset > 0 /\ node.payload.flavor = 1
       /\ ~Header(b, node.offset).length.indefinite
       /\ node.payload.children # <<>>

\* C10: reading back the bytes Tag::write produced for a decoded tree
\* succeeds and yields the same numbers, payloads and children in the same
\* order.
C10_RereadSameTree ==
  pc = "reread" => res2.st = "Ok" /\ Shape(res2.val) = Shape(tag)

----------------------------------------------------------------------------
(* C3, C4, C8, C9: what Tag::read accepts and rejects *)

Attempted == pc # "source"

\* the first octet of the source is an identifier with its number in the
\* five-bit field
InlineIdentifier ==
  /\ b # <<>>
  /\ b[1] % 32 # 31
  /\ b[1] \div 64 = 0 => b[1] % 32 \in Type

\* C3: Tag::read fails with NumberOverflow, having read no byte past the one
\* that shows the overflow, (a) on a length byte 89..FF and (b) on an extended
\* tag number whose eighth group still has its high bit set.
C3_OverflowRejected ==
  Attempted =>
    /\ (InlineIdentifier /\ Len(b) >= 2 /\ b[2] >= 137) =>
         res.st = "Err" /\ res.kind = "NumberOverflow" /\ res.r.pos = 2
    /\ (/\ Len(b) >= 9
        /\ b[1] \div 64 # 0 /\ b[1] % 32 = 31
        /\ \A k \in 2..9 : b[k] >= 128) =>
         res.st = "Err" /\ res.kind = "NumberOverflow" /\ res.r.pos = 9

\* C4: a source that starts with a universal identifier octet decodes to
\* Number::Universal of the octet's five-bit field or fails with an Error:
\* InvalidTypeAndFlavor when the field is 1F, an Error too when it is 14 or
\* 15. The decode never panics.
C4_UniversalValidated ==
  (Attempted /\ b # <<>> /\ b[1] < 64) =>
    /\ res.st # "Panic"
    /\ res.st = "Ok" =>
         /\ b[1] % 32 \in Type
         /\ res.val.number = Number("Universal", I64(b[1] % 32))
    /\ b[1] % 32 = 31 => res.st = "Err" /\ res.kind = "InvalidTypeAndFlavor"
    /\ b[1] % 32 \in {14, 15} => res.st = "Err"

\* C8: every primitive node of a decoded tree holds exactly the declared n
\* source bytes after its length field, the cursor has moved past them, and a
\* source with fewer than n bytes after the length field of its primitive
\* root yields an Error.
C8_ExactPayload ==
  /\ Decoded =>
       \A node \in NodeSet(tag) :
         node.payload.flavor = 0 =>
           LET start == Header(b, node.offset).start
               n     == Declared(b, node.offset)
           IN  /\ start + n <= Len(b)
               /\ node.payload.bytes = SubSeq(b, start + 1, start + n)
               /\ res.r.pos >= start + n
  /\ (/\ Attempted /\ InlineIdentifier /\ Len(b) >= 2
      /\ (b[1] \div 32) % 2 = 0 /\ b[2] < 128
      /\ Len(b) - 2 < b[2]) => res.st = "Err"

\* C9: every constructed node of a decoded tree that declares n bytes has its
\* children in exactly the n bytes after its length field, and none when n = 0.
C9_DeclaredCountBounds ==
  Decoded =>
    \A node \in NodeSet(tag) :
      (node.payload.flavor = 1 /\ ~Header(b, node.offset).length.indefinite) =>
        /\ ChildrenEnd(b, node) - Header(b, node.offset).start
             = Declared(b, node.offset)
        /\ Declared(b, node.offset) = 0 => node.payload.children = <<>>

----------------------------------------------------------------------------
(* C2: tags built directly, written and read back *)

\* the tag numbers tried: 0, 30, 31 and 127 in the lowest group, 0, 1 and 127
\* in each of the eight groups above it (0 up to 2^63 - 1)
NumberSamples ==
  {<<low>> \o high : low \in {0, 30, 31, 127}, high \in [1..I64Groups - 1 -> {0, 1, 127}]}

InitNumber ==
  /\ tag \in {Tag(Number(variant, n), None, Primitive(<<>>)) :
                variant \in {"Application", "ContextSpecific", "Private"},
                n \in NumberSamples}
  /\ pc = "tag"
  /\ b = <<>>
  /\ res = NoResult
  /\ out = <<>>
  /\ res2 = NoResult
  /\ len = Indefinite
  /\ lenOut = <<>>

NextNumber == DoWrite \/ DoReadBack

SpecNumber == InitNumber /\ [][NextNumber]_vars

\* the highest non-zero group of a number that is not 0
RECURSIVE TopGroup(_, _)
TopGroup(n, k) == IF k = 1 \/ n[k] # 0 THEN k ELSE TopGroup(n, k - 1)

\* C2: Tag::write puts a non-universal number n <= 30 in the low five bits of
\* the identifier octet, and for n >= 31 puts 1F there and then the groups of
\* n, each but the last with its high bit set; Tag::read of the bytes written
\* returns the same class and the same n.
C2_NumberRoundTrip ==
  /\ Written =>
       LET n == tag.number.value
       IN  /\ out[1] \div 64 = ClassCode(tag.number.variant)
           /\ IF n[1] <= 30 /\ \A k \in 2..I64Groups : n[k] = 0
              THEN out[1] % 32 = n[1] /\ out[2] = 0
              ELSE /\ out[1] % 32 = 31
                   /\ \A k \in 1..TopGroup(n, I64Groups) :
                        out[1 + k] = n[k] + (IF k < TopGroup(n, I64Groups) THEN 128 ELSE 0)
                   /\ out[2 + TopGroup(n, I64Groups)] = 0
  /\ pc = "reread" => res2.st = "Ok" /\ res2.val.number = tag.number

----------------------------------------------------------------------------
(* C6: write_length on its own *)

\* the lengths tried: 0, 1, 1E, 1F and FF in the lowest byte, 0, 1 and FF in
\* each of the seven bytes above it (0 up to 2^64 - 1)
LengthSamples ==
  {<<low>> \o high : low \in {0, 1, 30, 31, 255}, high \in [1..U64Bytes - 1 -> {0, 1, 255}]}

InitLength ==
  /\ len \in {Indefinite} \cup {LengthSome(l) : l \in LengthSamples}
  /\ pc = "length"
  /\ lenOut = <<>>
  /\ b = <<>>
  /\ res = NoResult
  /\ tag = NoTag
  /\ out = <<>>
  /\ res2 = NoResult

\* write_length(&mut buf, &len) on an empty Vec
DoWriteLength ==
  /\ pc = "length"
  /\ lenOut' = write_length(len)
  /\ pc' = "length written"
  /\ UNCHANGED <<b, res, tag, out, res2, len>>

NextLength == DoWriteLength

SpecLength == InitLength /\ [][NextLength]_vars

\* the highest non-zero byte of a length that is not 0
RECURSIVE TopByte(_, _)
TopByte(l, k) == IF k = 1 \/ l[k] # 0 THEN k ELSE TopByte(l, k - 1)

\* C6: write_length emits Indefinite as 80, a length n <= 1E as the byte n,
\* and a length n >= 1F as 80 | count and the count bytes of n, the most
\* significant first, where count in 1..8 is the least number of bytes that
\* hold n (255 gives 81 FF, 256 gives 82 01 00).
C6_LengthEncoding ==
  pc = "length written" =>
    IF len.indefinite THEN lenOut = <<128>>
    ELSE IF len.l[1] <= 30 /\ \A k \in 2..U64Bytes : len.l[k] = 0
    THEN lenOut = <<len.l[1]>>
    ELSE LET count == TopByte(len.l, U64Bytes)
         IN  /\ Len(lenOut) = 1 + count
             /\ lenOut[1] = 128 + count
             /\ \A i \in 1..count : lenOut[1 + i] = len.l[count + 1 - i]
             /\ len.l = U64(255) => lenOut = <<129, 255>>
             /\ len.l = U64(256) => lenOut = <<130, 1, 0>>

\* a length of eight bytes written in long form
C6_Witness ==
  /\ pc = "length written"
  /\ ~len.indefinite /\ len.l[U64Bytes] # 0
  /\ Len(lenOut) = 1 + U64Bytes

====
